---- MODULE Spec2Model ----
(***************************************************************************)
(* A model of play.py: the Texas hold'em hand ranker (assess_hand and its  *)
(* helpers) and the Party session object that deals and ranks.             *)
(*                                                                         *)
(* Python values are modelled as follows.  A list or tuple is a sequence.  *)
(* A call that may raise returns a record [exc, val]: exc = "none" and val *)
(* the returned value, or exc the name of the exception raised.  A value   *)
(* that may be None is the empty sequence for None and <<x>> for x.        *)
(***************************************************************************)
EXTENDS Integers, Sequences, FiniteSets, TLC

\* ------------------------------------------------------------- Hand (IntEnum)
HIGH_CARD == 1
PAIR == 2
TWO_PAIR == 3
THREE == 4
STRAIGHT == 5
FLUSH == 6
FULL_HOUSE == 7
FOUR == 8
STRAIGHT_FLUSH == 9

\* Python's None, for a value modelled as <<x>>.
None == <<>>

\* ------------------------------------------------------------ list helpers
Last(s) == s[Len(s)]

\* s[:n]
Take(s, n) == IF Len(s) <= n THEN s ELSE SubSeq(s, 1, n)

\* s[-n:]
TakeLast(s, n) == IF Len(s) <= n THEN s ELSE SubSeq(s, Len(s) - n + 1, Len(s))

Reverse(s) == [i \in 1..Len(s) |-> s[Len(s) + 1 - i]]

\* sorted(s) of a list of integers, ascending (duplicates kept).
SortedList(s) == SortSeq(s, LAMBDA a, b : a < b)

\* ------------------------------------------------------------ card encoding
\* card_value without the ace's special case: c % 13, the ace worth 0.
card_value_ace_low(c) == c % 13

card_value(c) == IF c % 13 = 0 THEN 13 ELSE c % 13

card_suit(c) == c \div 13

\* The values a Card tuple of find_max_sequence can hold, ascending: the rank
\* values 1..13 and the ace's second value 0.
ValueOrder == [i \in 1..14 |-> i - 1]

\* sorted(S) of a set of such values.
SortedValues(S) == SelectSeq(ValueOrder, LAMBDA v : v \in S)

\* The rank values of a list of cards, in the list's order.
Values(cards) == [i \in 1..Len(cards) |-> card_value(cards[i])]

\* ------------------------------------------------------------ Counter
\* Counter(s) as its items <<key, count>>, in insertion (first seen) order.
RECURSIVE Bump(_, _, _)
Bump(items, n, k) ==
  IF n = 0 THEN Append(items, <<k, 1>>)
  ELSE IF items[n][1] = k THEN [items EXCEPT ![n] = <<k, @[2] + 1>>]
  ELSE Bump(items, n - 1, k)

RECURSIVE Counter(_, _)
Counter(s, n) ==
  IF n = 0 THEN <<>>
  ELSE LET items == Counter(s, n - 1) IN Bump(items, Len(items), s[n])

\* sorted(items, key=count, reverse=True): SortSeq is an insertion sort that moves
\* an item before the items it compares strictly above, so it is stable, like
\* Python's sort.
SortedByCountDesc(items) == SortSeq(items, LAMBDA a, b : a[2] > b[2])

\* Counter(s).most_common(n): the n most frequent items, equal counts in
\* first-seen order.
most_common(s, n) ==
  Take(SortedByCountDesc(Counter(s, Len(s))), n)

\* ------------------------------------------------------------ sort_cards
\* sort_cards(cards, suit, reverse) with transform_cards=True: the rank values of
\* the cards (of that suit, unless suit is None), sorted.
sort_cards(cards, suit, reverse) ==
  LET kept == IF suit = None THEN cards
              ELSE SelectSeq(cards, LAMBDA c : card_suit(c) = suit[1])
      asc == SortedList(Values(kept))
  IN IF reverse THEN Reverse(asc) ELSE asc

max_card(cards) == Last(sort_cards(cards, None, FALSE))

min_card(cards) == sort_cards(cards, None, FALSE)[1]

\* ------------------------------------------------------------ select_side_cards
\* select_side_cards without the set difference: every value is a side card.
select_side_cards_keep_all(cards, cards_to_exclude) ==
  Reverse(SortedValues({card_value(cards[i]) : i \in DOMAIN cards}))

select_side_cards(cards, cards_to_exclude) ==
  LET side_cards == {card_value(cards[i]) : i \in DOMAIN cards}
                    \ {card_value(cards_to_exclude[i]) : i \in DOMAIN cards_to_exclude}
  IN Reverse(SortedValues(side_cards))

\* ------------------------------------------------------------ flush_suite
flush_suite(hand) ==
  LET top == most_common([i \in 1..Len(hand) |-> card_suit(hand[i])], 1)[1]
  IN IF top[2] = 5 THEN <<top[1]>> ELSE None

\* ------------------------------------------------------------ group_duplicates
\* groups[n]: the values among the two most common that occur n times, in
\* most_common's order ([] for a count no value has: a defaultdict).
group_duplicates(hand) ==
  LET top == most_common(Values(hand), 2)
      first == IF Len(top) >= 1 THEN top[1] ELSE <<0, 0>>
      second == IF Len(top) >= 2 THEN top[2] ELSE <<0, 0>>
  IN [n \in 1..(IF Len(hand) < 4 THEN 4 ELSE Len(hand)) |->
       (IF first[2] = n THEN <<first[1]>> ELSE <<>>)
       \o (IF second[2] = n THEN <<second[1]>> ELSE <<>>)]

\* ------------------------------------------------------------ find_max_sequence
\* card_dict, as the function from a value to its Card's place in cards (0: no
\* such key).  A dict comprehension keeps, for a key met again, the last value
\* assigned to it.
RECURSIVE CardDict(_, _)
CardDict(cards, n) ==
  IF n = 0 THEN [v \in 0..13 |-> 0]
  ELSE [CardDict(cards, n - 1) EXCEPT ![card_value(cards[n])] = n]

\* The loop of find_max_sequence: the maximal runs of consecutive values, in
\* ascending order.  A Card(value, id) is kept as its value, its id being
\* card_dict[value].  Sequences(vs, n) is the list of runs of vs[1..n].
RECURSIVE Sequences(_, _)
Sequences(vs, n) ==
  IF n = 1 THEN << <<vs[1]>> >>
  ELSE LET prev == Sequences(vs, n - 1)
       IN IF vs[n] = vs[n - 1] + 1
          THEN [prev EXCEPT ![Len(prev)] = Append(@, vs[n])]
          ELSE Append(prev, <<vs[n]>>)

\* sorted(sequences, key=len): a stable sort by increasing length.
SortedByLen(seqs) == SortSeq(seqs, LAMBDA a, b : Len(a) < Len(b))

\* The chosen run: sorted(sequences, key=len)[-1].
MaxSequence(sequences) == Last(SortedByLen(sequences))

\* find_max_sequence(cards): [exc, val], val the returned list: [] for a single
\* distinct rank value, else [values, ids] of the top 5 of the chosen run.
find_max_sequence(cards) ==
  LET card_dict == CardDict(cards, Len(cards))
      n_keys == Cardinality({v \in 1..13 : card_dict[v] # 0})
      with_ace == IF card_dict[13] # 0
                  THEN [card_dict EXCEPT ![0] = card_dict[13]] ELSE card_dict
      sorted_cards == SelectSeq(ValueOrder, LAMBDA v : with_ace[v] # 0)
  IN IF n_keys = 1 THEN [exc |-> "none", val |-> <<>>]
     ELSE IF cards = <<>> THEN [exc |-> "IndexError", val |-> <<>>]
     ELSE LET max_sequence ==
                TakeLast(MaxSequence(Sequences(sorted_cards, Len(sorted_cards))), 5)
          IN [exc |-> "none",
              val |-> << max_sequence,
                         [i \in 1..Len(max_sequence) |-> cards[with_ace[max_sequence[i]]]] >>]

\* ------------------------------------------------------------ assess_hand
Return(v) == [exc |-> "none", val |-> v]

Raise(e) == [exc |-> e, val |-> <<>>]

\* side_cards[1] in place of side_cards[0]: the second side card.
FirstSideCard_second(cat, main, side_cards) ==
  IF Len(side_cards) < 2 THEN Raise("IndexError")
  ELSE Return(<<cat>> \o main \o <<side_cards[2]>>)

\* side_cards[:1] in place of side_cards[0]: no kicker when there is none.
FirstSideCard_sliced(cat, main, side_cards) ==
  Return(<<cat>> \o main \o Take(side_cards, 1))

\* side_cards[0], which raises IndexError on an empty list.
FirstSideCard(cat, main, side_cards) ==
  IF side_cards = <<>> THEN Raise("IndexError")
  ELSE Return(<<cat>> \o main \o <<side_cards[1]>>)

\* The branches of assess_hand, once find_max_sequence's result is unpacked.
Classify(cards, seq_values, seq_cards) ==
  LET duplicates == group_duplicates(cards)
  IN IF Len(seq_values) = 5 /\ flush_suite(seq_cards) # None
     THEN Return(<<STRAIGHT_FLUSH, Last(seq_values)>>)
     ELSE IF duplicates[4] # <<>>
     THEN FirstSideCard(FOUR, <<duplicates[4][1]>>, select_side_cards(cards, duplicates[4]))
     ELSE IF duplicates[3] # <<>> /\ duplicates[2] # <<>>
     THEN Return(<<FULL_HOUSE, duplicates[3][1], duplicates[2][1]>>)
     ELSE IF flush_suite(cards) # None
     THEN LET flush_cards == sort_cards(cards, flush_suite(cards), TRUE)
          IN Return(<<FLUSH>> \o Take(flush_cards, 5))
     ELSE IF Len(seq_values) = 5
     THEN Return(<<STRAIGHT, Last(seq_values)>>)
     ELSE IF duplicates[3] # <<>>
     THEN Return(<<THREE, duplicates[3][1]>>
                 \o Take(select_side_cards(cards, duplicates[3]), 2))
     ELSE IF Len(duplicates[2]) = 2
     THEN FirstSideCard(TWO_PAIR, <<max_card(duplicates[2]), min_card(duplicates[2])>>,
                        select_side_cards(cards, duplicates[2]))
     ELSE IF Len(duplicates[2]) = 1
     THEN Return(<<PAIR, duplicates[2][1]>>
                 \o Take(select_side_cards(cards, duplicates[2]), 3))
     ELSE Return(<<HIGH_CARD>> \o Take(sort_cards(cards, None, TRUE), 5))

\* "seq_values, seq_cards = find_max_sequence(cards)" and what follows it, given
\* what the call returned: the assignment raises ValueError when the list
\* returned does not hold two items.
Unpack(cards, returned) ==
  IF returned.exc # "none" THEN Raise(returned.exc)
  ELSE IF Len(returned.val) # 2 THEN Raise("ValueError")
  ELSE Classify(cards, returned.val[1], returned.val[2])

\* assess_hand(cards): [exc, val], val the record (the Rank Descriptor).
assess_hand(cards) == Unpack(cards, find_max_sequence(cards))

\* ------------------------------------------------------------ the state
\* cards: the list a caller passes to assess_hand.  found: what the call's
\* find_max_sequence returned, record: what assess_hand returned ([exc, val];
\* NoCall before the call).  party: a Party object and the position of the call
\* running on it.
VARIABLES cards, record, found, party

vars == <<cards, record, found, party>>

NoCall == [exc |-> "nocall", val |-> <<>>]

\* No Party object: the fields of a Party, none set.  pc: "none", "constructed",
\* or "raised" when __init__ raised and left no object.  n_players: __init__'s
\* argument.  ordered_cards: __init__'s local list.  exc: the exception of the
\* last call ("none" if it returned), returned: what the last play() returned.
NoParty ==
  [pc |-> "none", n_players |-> 0, ordered_cards |-> <<>>, cards |-> None,
   hole_cards |-> <<>>, left_rounds |-> 0, board |-> <<>>,
   exc |-> "none", returned |-> None]

\* 5 to 7 distinct ids in 0..51.
WellFormed(h) ==
  /\ Len(h) \in 5..7
  /\ \A i \in DOMAIN h : h[i] \in 0..51
  /\ \A i, j \in DOMAIN h : i # j => h[i] # h[j]

\* The ids 0..51 in ascending order, and sorted(S) of a set of ids.
IdOrder == [i \in 1..52 |-> i - 1]

SortedIds(S) == SelectSeq(IdOrder, LAMBDA c : c \in S)

\* ------------------------------------------------------------ ranking hands
\* The cards the callers of Spec hold: the base ranks below SuitedRanks (ace, 2,
\* 3, ...) of suit 0 and the base ranks below PlainRanks of every suit.
SuitedRanks == 7
PlainRanks == 2

Deck == {c \in 0..51 : (c % 13 < SuitedRanks /\ card_suit(c) = 0) \/ c % 13 < PlainRanks}

\* A caller holds 5 to 7 cards of the deck, in ascending order of id.
Init ==
  /\ \E S \in SUBSET Deck : Cardinality(S) \in 5..7 /\ cards = SortedIds(S)
  /\ record = NoCall
  /\ found = NoCall
  /\ party = NoParty

\* The call assess_hand(cards).
Assess ==
  /\ record = NoCall
  /\ found' = find_max_sequence(cards)
  /\ record' = Unpack(cards, found')
  /\ UNCHANGED <<cards, party>>

\* The call again, the same cards supplied in another order.
Rotate ==
  /\ record # NoCall
  /\ cards' = Append(Tail(cards), Head(cards))
  /\ found' = find_max_sequence(cards')
  /\ record' = Unpack(cards', found')
  /\ UNCHANGED party

Backwards ==
  /\ record # NoCall
  /\ cards' = Reverse(cards)
  /\ found' = find_max_sequence(cards')
  /\ record' = Unpack(cards', found')
  /\ UNCHANGED party

Next == Assess \/ Rotate \/ Backwards

Spec == Init /\ [][Next]_vars

\* ------------------------------------------------------------ properties of Spec
\* Python's order on tuples of integers: a < b.
RECURSIVE TupleLess(_, _)
TupleLess(a, b) ==
  IF b = <<>> THEN FALSE
  ELSE IF a = <<>> THEN TRUE
  ELSE IF a[1] # b[1] THEN a[1] < b[1]
  ELSE TupleLess(Tail(a), Tail(b))

Called == record # NoCall

Returned == record.exc = "none"

Category == record.val[1]

\* C1: the Rank Descriptor of a card set does not depend on the order the cards
\* are supplied in: ranking the same cards again in another order returns the
\* same record.
C1_PermutationInvariance ==
  [][(Called /\ record'.exc # "nocall") => record' = record]_vars

\* C3: the record returned has exactly the length fixed for its category.
Arity == <<6, 5, 4, 4, 2, 6, 3, 3, 2>>

C3_FixedArity ==
  Called => /\ Returned
            /\ Category \in 1..9
            /\ Len(record.val) = Arity[Category]

\* C4: on 5 to 7 distinct ids in 0..51 assess_hand raises nothing: the list
\* find_max_sequence returns unpacks into two items, no index is out of range,
\* and the record returned starts with one of the nine categories.
C4_Totality ==
  Called => /\ WellFormed(cards)
            /\ found.exc = "none" /\ Len(found.val) = 2
            /\ Returned
            /\ Len(record.val) >= 2
            /\ Category \in HIGH_CARD..STRAIGHT_FLUSH

\* Four of a kind in a 5-card hand: find_max_sequence meets two distinct values
\* only and the kicker list holds one value, the one side_cards[0] reads.
C4_Witness ==
  /\ Called /\ Returned /\ WellFormed(cards)
  /\ Len(cards) = 5
  /\ Category = FOUR
  /\ Len(found.val[1]) = 1

\* C8: in a record of category PAIR, TWO_PAIR, THREE or FOUR no kicker equals a
\* value of the primary slots.  PrimarySlots: the places of the pair, pairs, trip
\* or quad values in the record; the kickers are the places after them.
PrimarySlots(cat) == IF cat = TWO_PAIR THEN {2, 3} ELSE {2}

C8_KickerDisjointness ==
  (Called /\ Returned /\ Category \in {PAIR, TWO_PAIR, THREE, FOUR}) =>
    \A i \in PrimarySlots(Category) :
      \A k \in DOMAIN record.val :
        (k > 1 /\ k \notin PrimarySlots(Category)) => record.val[k] # record.val[i]

\* Four aces and a kicker: the excluded value is 13, which select_side_cards passes
\* through card_value again.
C8_Witness ==
  /\ Called /\ Returned
  /\ Category = FOUR
  /\ record.val[2] = 13
  /\ Len(record.val) = 3

\* The rank values of a hand, as a set.
ValueSet(h) == {card_value(h[i]) : i \in DOMAIN h}

\* C9: among the maximal runs of consecutive values (the ace also registered as
\* 0) that share the maximum length, find_max_sequence returns the first met in
\* the ascending scan, the one with the lowest values.
Registered(h) == IF 13 \in ValueSet(h) THEN ValueSet(h) \cup {0} ELSE ValueSet(h)

\* The runs of V, each as <<lowest, highest>>.
RunsOf(V) ==
  {r \in V \X V : /\ r[1] <= r[2]
                  /\ \A v \in r[1]..r[2] : v \in V
                  /\ (r[1] - 1) \notin V
                  /\ (r[2] + 1) \notin V}

FirstMaxRun(V) ==
  LET longest == CHOOSE r \in RunsOf(V) :
                   \A q \in RunsOf(V) :
                     \/ q[2] - q[1] < r[2] - r[1]
                     \/ (q[2] - q[1] = r[2] - r[1] /\ r[1] <= q[1])
  IN [i \in 1..(longest[2] - longest[1] + 1) |-> longest[1] + i - 1]

C9_FirstEncounteredRun ==
  (found.exc = "none" /\ Len(found.val) = 2) =>
    found.val[1] = TakeLast(FirstMaxRun(Registered(cards)), 5)

\* C2: the reference the claim names, standard poker on the best of all 5-card
\* subsets.  PokerRank5(S): the strength of the five cards S as a tuple, the
\* category first, then the values by decreasing count and value (the top value
\* alone for a straight), compared as tuples.
RECURSIVE Descending(_)
Descending(S) ==
  IF S = {} THEN <<>>
  ELSE LET m == CHOOSE x \in S : \A y \in S : y <= x IN <<m>> \o Descending(S \ {m})

PokerRank5(S) ==
  LET V == {card_value(c) : c \in S}
      n(v) == Cardinality({c \in S : card_value(c) = v})
      most == CHOOSE k \in 1..4 : (\E v \in V : n(v) = k) /\ (\A v \in V : n(v) <= k)
      flush == Cardinality({card_suit(c) : c \in S}) = 1
      wheel == V = {13, 1, 2, 3, 4}
      high == CHOOSE x \in V : \A y \in V : y <= x
      low == CHOOSE x \in V : \A y \in V : x <= y
      straight == Cardinality(V) = 5 /\ (wheel \/ high - low = 4)
      byStrength == [i \in 1..Cardinality(V) |-> Descending({14 * n(v) + v : v \in V})[i] % 14]
      cat == IF straight /\ flush THEN STRAIGHT_FLUSH
             ELSE IF most = 4 THEN FOUR
             ELSE IF most = 3 /\ Cardinality(V) = 2 THEN FULL_HOUSE
             ELSE IF flush THEN FLUSH
             ELSE IF straight THEN STRAIGHT
             ELSE IF most = 3 THEN THREE
             ELSE IF most = 2 /\ Cardinality(V) = 3 THEN TWO_PAIR
             ELSE IF most = 2 THEN PAIR
             ELSE HIGH_CARD
  IN IF straight THEN <<cat, IF wheel THEN 4 ELSE high>> ELSE <<cat>> \o byStrength

FiveOf(h) == {S \in SUBSET {h[i] : i \in DOMAIN h} : Cardinality(S) = 5}

\* The strength of the best 5-card hand of the cards h.
PokerBest(h) ==
  CHOOSE r \in {PokerRank5(S) : S \in FiveOf(h)} :
    \A S \in FiveOf(h) : ~TupleLess(r, PokerRank5(S))

\* C2: for card sets A and B, the records are equal exactly when the best hands
\* are equivalent, and A's is greater exactly when A's best hand is stronger.
\* A is the hand ranked, B each of its 5-card subsets.
C2_OrderAgreesWithPoker ==
  Called =>
    /\ Returned
    /\ \A S \in FiveOf(cards) :
         LET b == assess_hand(SortedIds(S))
         IN /\ b.exc = "none"
            /\ (record.val = b.val) <=> (PokerBest(cards) = PokerRank5(S))
            /\ TupleLess(b.val, record.val) <=> TupleLess(PokerRank5(S), PokerBest(cards))

\* C7: a hand whose only run of 5 consecutive values is A-2-3-4-5.
HasRun(h, top) == \A v \in (top - 4)..top : v \in Registered(h)

OnlyWheel(h) == HasRun(h, 4) /\ \A top \in 5..13 : ~HasRun(h, top)

\* The straights and straight flushes that are not the wheel have a top value above 4.
C7_OtherStraights ==
  (Called /\ Returned /\ Category \in {STRAIGHT, STRAIGHT_FLUSH} /\ ~OnlyWheel(cards)) =>
    record.val[2] > 4

\* A-2-3-4-5 of one suit is (STRAIGHT_FLUSH, 4), below 2-3-4-5-6 of one suit.
OneSuit(h, ranks) ==
  \E suit \in 0..3 : {h[i] : i \in DOMAIN h} = {13 * suit + r : r \in ranks}

C7_OneSuit ==
  Called => /\ OneSuit(cards, 0..4) => (Returned /\ record.val = <<STRAIGHT_FLUSH, 4>>)
            /\ OneSuit(cards, 1..5) => (Returned /\ record.val = <<STRAIGHT_FLUSH, 5>>)

\* (STRAIGHT_FLUSH, 4) is greater than every record of another category.
C7_AboveOthers ==
  (Called /\ Returned /\ Category # STRAIGHT_FLUSH) =>
    TupleLess(record.val, <<STRAIGHT_FLUSH, 4>>)

\* C7: every hand whose only run of 5 is the wheel, and whose best five cards
\* are that straight or straight flush, is reported as the straight or the
\* straight flush of top value 4, below every other straight's; A-2-3-4-5 of one
\* suit is (STRAIGHT_FLUSH, 4), above every other category.
C7_WheelAsClaimed ==
  /\ (Called /\ OnlyWheel(cards) /\ PokerBest(cards)[1] \in {STRAIGHT, STRAIGHT_FLUSH}) =>
       /\ Returned
       /\ Category \in {STRAIGHT, STRAIGHT_FLUSH}
       /\ record.val = <<Category, 4>>
  /\ C7_OtherStraights
  /\ C7_OneSuit
  /\ C7_AboveOthers

\* What holds of every hand whose only run of 5 is the wheel: it is reported as a
\* flush, or as the straight or the straight flush of top value 4.
WheelOrFlush ==
  (Called /\ OnlyWheel(cards)) =>
    /\ Returned
    /\ Category \in {FLUSH, STRAIGHT, STRAIGHT_FLUSH}
    /\ Category \in {STRAIGHT, STRAIGHT_FLUSH} => record.val = <<Category, 4>>

\* ------------------------------------------------------------ malformed input
\* SpecMalformed: a caller builds any list of at most MaxCards ids of Pool (an id
\* may repeat, 52 is out of range) and passes it to assess_hand.
MaxCards == 8

Pool == {0, 1, 2, 52}

InitMalformed ==
  /\ cards = <<>>
  /\ record = NoCall
  /\ found = NoCall
  /\ party = NoParty

Collect ==
  /\ record = NoCall
  /\ Len(cards) < MaxCards
  /\ \E c \in Pool : cards' = Append(cards, c)
  /\ UNCHANGED <<record, found, party>>

NextMalformed == Collect \/ Assess

SpecMalformed == InitMalformed /\ [][NextMalformed]_vars

\* How many cards of h have the rank value v.
Occurrences(h, v) == Cardinality({i \in DOMAIN h : card_value(h[i]) = v})

\* The lists assess_hand has no record for: at most one distinct rank value, or
\* exactly two rank values, each held twice or each held four times.
Degenerate(h) ==
  LET V == ValueSet(h)
  IN \/ Cardinality(V) <= 1
     \/ /\ Cardinality(V) = 2
        /\ \E k \in {2, 4} : \A v \in V : Occurrences(h, v) = k

\* C5 as stated: on a list that is not 5 to 7 distinct ids in 0..51, assess_hand
\* raises and returns no record.
C5_FailFast ==
  (Called /\ ~WellFormed(cards)) => ~Returned

\* C5: assess_hand does not check its input.  On a list that is not 5 to 7
\* distinct ids in 0..51 it raises (ValueError or IndexError) exactly when the
\* list is degenerate, and returns a record, its first item a category, for
\* every other such list.
C5_RaisesOnlyWhenDegenerate ==
  (Called /\ ~WellFormed(cards)) =>
    /\ record.exc \in {"none", "ValueError", "IndexError"}
    /\ ~Returned <=> Degenerate(cards)
    /\ Returned => Len(record.val) >= 2 /\ Category \in HIGH_CARD..STRAIGHT_FLUSH

\* Eight cards, an id twice and an id out of range among them, and a record
\* returned.
C5_Witness ==
  /\ Called /\ Returned
  /\ Len(cards) = 8
  /\ \E i, j \in DOMAIN cards : i # j /\ cards[i] = cards[j]
  /\ \E i \in DOMAIN cards : cards[i] \notin 0..51

\* ------------------------------------------------------------ the 5-card census
\* SpecCensus: a caller ranks the 5-card combinations of the ids 0..51, each
\* passed in ascending order of id.  The combinations are drawn up to a renaming
\* of the suits: the cards are drawn by rank first (CensusOrder), a card of a new
\* suit always of the lowest suit not drawn yet, which yields one hand at least
\* of every 5-card hand's shape; each is then ranked under SuitOrders renamings
\* of the suits.
SuitOrders == 3

SuitRenamings ==
  << <<0, 1, 2, 3>>, <<3, 2, 1, 0>>, <<1, 2, 3, 0>>,
     <<2, 0, 3, 1>>, <<1, 0, 3, 2>>, <<3, 0, 1, 2>> >>

\* The id of card c with its suit renamed.
Renamed(renaming, c) == 13 * renaming[card_suit(c) + 1] + (c % 13)

CensusOrder(c) == 4 * (c % 13) + card_suit(c)

\* c may be drawn after the cards h.
Draws(h, c) ==
  /\ IF h = <<>> THEN TRUE ELSE CensusOrder(c) > CensusOrder(Last(h))
  /\ card_suit(c) <= Cardinality({card_suit(h[i]) : i \in DOMAIN h})

InitCensus ==
  /\ cards = <<>>
  /\ record = NoCall
  /\ found = NoCall
  /\ party = NoParty

\* One of the first four cards of the combination.
Pick ==
  /\ Len(cards) < 4
  /\ \E c \in 0..51 :
       /\ Draws(cards, c)
       /\ cards' = Append(cards, c)
  /\ UNCHANGED <<record, found, party>>

\* The fifth card, a renaming of the suits, and the call assess_hand(cards) on
\* the combination.
PickLast ==
  /\ Len(cards) = 4
  /\ \E c \in 0..51, k \in 1..SuitOrders :
       /\ Draws(cards, c)
       /\ cards' = SortedIds({Renamed(SuitRenamings[k], x) :
                                x \in {cards[i] : i \in DOMAIN cards} \cup {c}})
  /\ found' = find_max_sequence(cards')
  /\ record' = Unpack(cards', found')
  /\ UNCHANGED party

NextCensus == Pick \/ PickLast

SpecCensus == InitCensus /\ [][NextCensus]_vars

\* The ranks of 5-card poker, as records.  Kinds(S): five distinct values that
\* make no straight.
RankValues == 1..13

Straights == {{13, 1, 2, 3, 4}} \cup {t - 4 .. t : t \in 5..13}

Kinds == {S \in SUBSET RankValues : Cardinality(S) = 5 /\ S \notin Straights}

Pairs(S) == {T \in SUBSET S : Cardinality(T) = 2}

Triples(S) == {T \in SUBSET S : Cardinality(T) = 3}

DescriptorsOf ==
  [cat \in HIGH_CARD..STRAIGHT_FLUSH |->
     CASE cat \in {STRAIGHT_FLUSH, STRAIGHT} -> {<<cat, t>> : t \in 4..13}
       [] cat \in {FOUR, FULL_HOUSE} ->
            {<<cat, a, b>> : a \in RankValues, b \in RankValues} \ {<<cat, a, a>> : a \in RankValues}
       [] cat \in {FLUSH, HIGH_CARD} -> {<<cat>> \o Descending(S) : S \in Kinds}
       [] cat = THREE ->
            UNION {{<<cat, t>> \o Descending(K) : K \in Pairs(RankValues \ {t})} : t \in RankValues}
       [] cat = TWO_PAIR ->
            UNION {{Append(<<cat>> \o Descending(P), k) : k \in RankValues \ P} : P \in Pairs(RankValues)}
       [] cat = PAIR ->
            UNION {{<<cat, p>> \o Descending(K) : K \in Triples(RankValues \ {p})} : p \in RankValues}]

RankDescriptors == UNION {DescriptorsOf[cat] : cat \in HIGH_CARD..STRAIGHT_FLUSH}

\* d is one of RankDescriptors, decided from d's items.
Decreasing(d, from) == \A i \in from..(Len(d) - 1) : d[i] > d[i + 1]

IsRankDescriptor(d) ==
  /\ Len(d) >= 2
  /\ d[1] \in HIGH_CARD..STRAIGHT_FLUSH
  /\ Len(d) = <<6, 5, 4, 4, 2, 6, 3, 3, 2>>[d[1]]
  /\ \A i \in 2..Len(d) : d[i] \in RankValues
  /\ CASE d[1] \in {STRAIGHT_FLUSH, STRAIGHT} -> d[2] >= 4
       [] d[1] \in {FOUR, FULL_HOUSE} -> d[2] # d[3]
       [] d[1] \in {FLUSH, HIGH_CARD} ->
            Decreasing(d, 2) /\ {d[i] : i \in 2..6} \notin Straights
       [] d[1] = THREE -> Decreasing(d, 3) /\ d[2] \notin {d[3], d[4]}
       [] d[1] = TWO_PAIR -> d[2] > d[3] /\ d[4] \notin {d[2], d[3]}
       [] d[1] = PAIR -> Decreasing(d, 3) /\ d[2] \notin {d[3], d[4], d[5]}

\* Five cards that make the rank d: the id of value v in suit s, the values of d
\* with their multiplicities, all of suit 0 exactly for the flushes.
IdOf(v, s) == 13 * s + (v % 13)

HandFor(d) ==
  LET cat == d[1]
      run == IF d[2] = 4 THEN <<13, 1, 2, 3, 4>> ELSE [i \in 1..5 |-> d[2] - 5 + i]
      last == IF cat \in {FLUSH, STRAIGHT_FLUSH} THEN 0 ELSE 1
  IN CASE cat \in {STRAIGHT_FLUSH, STRAIGHT} ->
            [i \in 1..5 |-> IdOf(run[i], IF i = 5 THEN last ELSE 0)]
       [] cat \in {FLUSH, HIGH_CARD} ->
            [i \in 1..5 |-> IdOf(d[i + 1], IF i = 5 THEN last ELSE 0)]
       [] cat = FOUR -> [i \in 1..4 |-> IdOf(d[2], i - 1)] \o <<IdOf(d[3], 0)>>
       [] cat = FULL_HOUSE -> [i \in 1..3 |-> IdOf(d[2], i - 1)] \o [i \in 1..2 |-> IdOf(d[3], i - 1)]
       [] cat = THREE -> [i \in 1..3 |-> IdOf(d[2], i - 1)] \o <<IdOf(d[3], 0), IdOf(d[4], 0)>>
       [] cat = TWO_PAIR ->
            <<IdOf(d[2], 0), IdOf(d[2], 1), IdOf(d[3], 0), IdOf(d[3], 1), IdOf(d[4], 0)>>
       [] cat = PAIR ->
            <<IdOf(d[2], 0), IdOf(d[2], 1), IdOf(d[3], 0), IdOf(d[4], 0), IdOf(d[5], 0)>>

CategoryCounts == <<1277, 2860, 858, 858, 10, 1277, 156, 156, 10>>

\* C6: the records of the 5-card combinations of 0..51 are exactly 7462 distinct
\* tuples: 10 straight flushes, 156 fours, 156 full houses, 1277 flushes, 10
\* straights, 858 threes, 858 two pairs, 2860 pairs and 1277 high cards.  Every
\* combination ranked has a record of RankDescriptors; RankDescriptors counts
\* 7462 tuples, so many in each category; and each of them is the record of a
\* combination.
C6_ExhaustiveRankCount ==
  /\ Len(cards) = 5 => Returned /\ IsRankDescriptor(record.val)
  /\ cards = <<>> =>
       /\ Cardinality(RankDescriptors) = 7462
       /\ \A cat \in HIGH_CARD..STRAIGHT_FLUSH :
            Cardinality(DescriptorsOf[cat]) = CategoryCounts[cat]
       /\ \A d \in RankDescriptors :
            /\ IsRankDescriptor(d)
            /\ WellFormed(HandFor(d))
            /\ assess_hand(HandFor(d)) = Return(d)

\* The ace, ten, jack, queen and king of suit 0, ranked the highest straight
\* flush.
C6_Witness ==
  /\ cards = <<0, 9, 10, 11, 12>>
  /\ Called /\ Returned
  /\ record.val = <<STRAIGHT_FLUSH, 13>>

\* ------------------------------------------------------------ Party
\* random.shuffle(ordered_cards) reorders the list in place and returns None.
\* The orders it leaves are taken among the cuts of range(1, 53) at a place up
\* to MaxCut.
MaxCut == 25

MaxPlayers == 7

Cut(k) == [i \in 1..52 |-> ((i - 1 + k) % 52) + 1]

\* self.cards.pop() on p: AttributeError when self.cards is None, IndexError when
\* the list is empty, else the last card, removed from the list.
Pop(p) ==
  IF p.cards = None THEN [exc |-> "AttributeError", val |-> 0, party |-> p]
  ELSE IF p.cards[1] = <<>> THEN [exc |-> "IndexError", val |-> 0, party |-> p]
  ELSE [exc |-> "none", val |-> Last(p.cards[1]),
        party |-> [p EXCEPT !.cards = <<Take(p.cards[1], Len(p.cards[1]) - 1)>>]]

\* The loop of __init__ from its step i on:
\* self.hole_cards[i % n_players].append(self.cards.pop()), the subscript taken
\* before the argument is evaluated.
RECURSIVE DealHoleCards(_, _)
DealHoleCards(p, i) ==
  IF i >= 2 * p.n_players THEN p
  ELSE IF (i % p.n_players) + 1 > Len(p.hole_cards)
  THEN [p EXCEPT !.pc = "raised", !.exc = "IndexError"]
  ELSE LET popped == Pop(p)
       IN IF popped.exc # "none"
          THEN [p EXCEPT !.pc = "raised", !.exc = popped.exc]
          ELSE DealHoleCards(
                 [popped.party EXCEPT !.hole_cards[(i % p.n_players) + 1] = Append(@, popped.val)],
                 i + 1)

\* Party(n_players), shuffled the order random.shuffle left the list in.
\* [n_players * []] is the list of one empty list.
PartyInit(n_players, shuffled) ==
  LET dealt == DealHoleCards(
                 [NoParty EXCEPT !.pc = "constructed", !.n_players = n_players,
                                 !.ordered_cards = shuffled, !.cards = None,
                                 !.hole_cards = << <<>> >>], 0)
  IN IF dealt.pc = "raised" THEN dealt
     ELSE [dealt EXCEPT !.left_rounds = 3, !.board = <<>>]

\* sort_hands(): every player's hand is ranked, then self.hole_cards(record[1])
\* calls a list, a TypeError, for the first record, which equals best_hand.
sort_hands(p) ==
  LET records == [i \in 1..Len(p.hole_cards) |-> assess_hand(p.board \o p.hole_cards[i])]
      failed == {i \in DOMAIN records : records[i].exc # "none"}
  IN IF failed # {}
     THEN Raise(records[CHOOSE i \in failed : \A j \in failed : i <= j].exc)
     ELSE IF records = <<>> THEN Raise("IndexError")
     ELSE Raise("TypeError")

\* The cards.pop() calls of play(), k of them, in turn: the cards popped and the
\* party left, exc the first exception.
RECURSIVE PopCards(_, _)
PopCards(p, k) ==
  IF k = 0 THEN [exc |-> "none", val |-> <<>>, party |-> p]
  ELSE LET popped == Pop(p)
           others == PopCards(popped.party, k - 1)
       IN IF popped.exc # "none" THEN [popped EXCEPT !.val = <<>>]
          ELSE [others EXCEPT !.val = <<popped.val>> \o @]

\* play() on p: the party it leaves.
play(p) ==
  IF p.left_rounds = 0
  THEN LET sorted == sort_hands(p)
       IN IF sorted.exc # "none" THEN [p EXCEPT !.exc = sorted.exc]
          ELSE [p EXCEPT !.exc = "none", !.returned = <<FALSE>>]
  ELSE LET popped == PopCards(p, IF p.left_rounds = 3 THEN 3 ELSE 1)
       IN IF popped.exc # "none" THEN [popped.party EXCEPT !.exc = popped.exc]
          ELSE [popped.party EXCEPT
                  !.board = IF p.left_rounds = 3 THEN popped.val ELSE p.board \o popped.val,
                  !.left_rounds = @ - 1,
                  !.exc = "none", !.returned = <<TRUE>>]

InitParty ==
  /\ cards = <<>>
  /\ record = NoCall
  /\ found = NoCall
  /\ party = NoParty

\* party = Party(n_players), for a table of MaxPlayers seats, some left empty.
Construct ==
  /\ party.pc = "none"
  /\ \E empty \in 0..MaxPlayers, k \in 0..MaxCut :
       party' = PartyInit(MaxPlayers - empty, Cut(k))
  /\ UNCHANGED <<cards, record, found>>

\* party.play()
Play ==
  /\ party.pc = "constructed"
  /\ party' = play(party)
  /\ UNCHANGED <<cards, record, found>>

NextParty == Construct \/ Play

SpecParty == InitParty /\ [][NextParty]_vars

\* C10: the session of a Party.  Construction deals two hole cards to each of the
\* n players and leaves the board empty; the play() calls return True and take
\* the board from 0 to 3, 4 and 5 cards, off the 52 cards of the deck; the call
\* made with 5 cards on the board ranks the players and returns False; no call
\* raises.
C10_SessionOrdering ==
  party.pc # "none" =>
    /\ party.pc = "constructed"
    /\ party.exc = "none"
    /\ Len(party.hole_cards) = party.n_players
    /\ \A i \in DOMAIN party.hole_cards : Len(party.hole_cards[i]) = 2
    /\ party.cards # None
    /\ party.left_rounds \in 0..3
    /\ Len(party.board) = <<5, 4, 3, 0>>[party.left_rounds + 1]
    /\ Len(party.cards[1]) = 52 - 2 * party.n_players - Len(party.board)
    /\ party.returned = <<FALSE>> => Len(party.board) = 5

====
